---- MODULE Spec2Model ----
(***************************************************************************)
(* The dashboard Layout Manager (DashboardProvider in WidgetEditor.tsx)    *)
(* on top of the useLocalStorage hook (useWidgetStorage.ts).               *)
(*                                                                         *)
(* A handler of the provider runs against the values its render captured:  *)
(* layouts, currentLayoutId and the storedValue inside each setter.  The   *)
(* variables layouts and currentLayoutId are those rendered values; every  *)
(* action is one handler call followed by the re-render React performs     *)
(* before the next event is handled.                                       *)
(***************************************************************************)
EXTENDS Integers, Sequences, FiniteSets, TLC

(* ------------------------------ bounds -------------------------------- *)
MaxLayouts == 2
MaxWidgets == 1
MaxClock == 1
MaxPlaced == 12
MaxNonLarge == 2
MaxInst == 2
MaxClip == 3
MaxKeyed == 2
MaxEvents == 1
MaxMigrateCalls == 2
MaxDataLen == 3

(* ------------------------- JavaScript values --------------------------- *)
\* undefined, where a string is expected (title, config token)
Undefined == "undefined"
\* null / undefined where an object is expected
Null == [null |-> TRUE]
\* the Error objects the provider creates, by their kind
NotFound == "NotFound"
NoError == "null"

(* --------------------------- widget registry --------------------------- *)
widgetRegistry ==
  ("analytics-chart" :> [name |-> "Analytics Chart", category |-> "analytics",
                         defaultSize |-> "medium", defaultConfig |-> "analytics-chart-defaults"])
  @@ ("status-widget" :> [name |-> "Status Widget", category |-> "tools",
                          defaultSize |-> "small", defaultConfig |-> "status-widget-defaults"])
  @@ ("code-editor" :> [name |-> "Code Editor", category |-> "tools",
                        defaultSize |-> "large", defaultConfig |-> "code-editor-defaults"])
  @@ ("data-display" :> [name |-> "Data Display", category |-> "data",
                         defaultSize |-> "small", defaultConfig |-> "data-display-defaults"])

\* a || b for optional strings
OrElse(a, b) == IF a = Undefined \/ a = "" THEN b ELSE a

createWidgetInstance(widgetId, instanceId, title, config, size) ==
  IF widgetId \notin DOMAIN widgetRegistry
  THEN Null
  ELSE [id |-> instanceId,
        title |-> OrElse(title, widgetRegistry[widgetId].name),
        type |-> widgetId,
        size |-> OrElse(size, widgetRegistry[widgetId].defaultSize),
        category |-> widgetRegistry[widgetId].category]

\* mutant: a medium widget gets the footprint of a small one
DEFAULT_WIDGET_DIMENSIONS_MediumAsSmall ==
  [small |-> [w |-> 1, h |-> 1],
   medium |-> [w |-> 1, h |-> 1],
   large |-> [w |-> 2, h |-> 2]]

DEFAULT_WIDGET_DIMENSIONS ==
  [small |-> [w |-> 1, h |-> 1],
   medium |-> [w |-> 2, h |-> 1],
   large |-> [w |-> 2, h |-> 2]]

(* ------------------------------ the clock ------------------------------ *)
\* `layout-${Date.now()}`
LayoutId(t) == "layout-" \o ToString(t)
\* `widget-${widgetId}-${Date.now()}`
InstanceId(widgetId, t) == "widget-" \o widgetId \o "-" \o ToString(t)
\* new Date().toISOString(): the instant t as text
toISOString(t) == "T" \o ToString(t)

(* ---------------------------- localStorage ----------------------------- *)
LayoutsKey == "dashboard-layouts"
CurrentKey == "current-dashboard-layout"
\* `widget-config-${widgetId}-${instanceId}`
ConfigKeyOf(widgetId, instanceId) == "widget-config-" \o widgetId \o "-" \o instanceId
\* `widget-state-${widgetId}-${instanceId}`
StateKeyOf(widgetId, instanceId) == "widget-state-" \o widgetId \o "-" \o instanceId
\* `widget-storage-${widgetId}-${instanceId}-${storageName}`
StorageKeyOf(widgetId, instanceId, storageName) ==
  "widget-storage-" \o widgetId \o "-" \o instanceId \o "-" \o storageName
\* getItem(key) of a key that was never written
NoItem == <<>>
\* JSON text is modelled by the value it encodes, wrapped; a key whose value
\* is undefined is dropped by stringify and reads back as undefined, which is
\* the same model value.
JSONstringify(v) == <<v>>
JSONparse(item) == item[1]

\* a text that JSON.parse rejects with a SyntaxError, as a truncated write or
\* another program leaves it
CorruptText == <<"{", "truncated">>
\* JSON.parse returns for the texts JSON.stringify writes and throws otherwise
parseThrows(item) == Len(item) # 1

\* mutant: a text that does not parse is handed out as it is
getStoredValueRaw(storage, key, defaultValue) ==
  IF storage[key] = NoItem THEN defaultValue
  ELSE IF parseThrows(storage[key]) THEN storage[key]
  ELSE JSONparse(storage[key])

\* try { item ? JSON.parse(item) : defaultValue } catch { defaultValue }
getStoredValue(storage, key, defaultValue) ==
  IF storage[key] = NoItem THEN defaultValue
  ELSE IF parseThrows(storage[key]) THEN defaultValue
  ELSE JSONparse(storage[key])

(* ------------------------ placement algorithm -------------------------- *)
gridWidth == 4
gridHeight == 10

\* what a thrown TypeError leaves in place of a position
TypeError == [threw |-> "TypeError"]

\* the index ranges of the loops over a rectangle: for (i = y; i < y + h; i++)
RowsOf(p) == p.y .. (p.y + p.h - 1)
ColsOf(p) == p.x .. (p.x + p.w - 1)

\* "Mark occupied cells" writes grid[i][j] = true whenever i < gridHeight and
\* j < gridWidth; for a negative i the row grid[i] is undefined and the write
\* throws a TypeError.
markThrows(widgets) ==
  \E k \in DOMAIN widgets :
    \E i \in RowsOf(widgets[k].position), j \in ColsOf(widgets[k].position) :
      i < gridHeight /\ j < gridWidth /\ i < 0

\* the grid after "Initialize grid" and "Mark occupied cells"
markedGrid(widgets) ==
  [i \in 0 .. (gridHeight - 1) |->
    [j \in 0 .. (gridWidth - 1) |->
      \E k \in DOMAIN widgets :
        /\ i \in RowsOf(widgets[k].position)
        /\ j \in ColsOf(widgets[k].position)]]

\* mutant: cells below the last row count as free
canFitBelowGrid(grid, x, y, width, height) ==
  \A i \in y .. (y + height - 1), j \in x .. (x + width - 1) :
    (i < gridHeight /\ j < gridWidth) => ~grid[i][j]

\* the inner two loops of "Find first available position"
canFit(grid, x, y, width, height) ==
  \A i \in y .. (y + height - 1), j \in x .. (x + width - 1) :
    ~(i >= gridHeight \/ j >= gridWidth \/ grid[i][j])

\* mutant: the fallback stays on the last scanned row
fallbackPositionLastRow(width, height) ==
  [x |-> 0, y |-> gridHeight - 1, w |-> width, h |-> height]

\* "If no position found, place at the bottom"
fallbackPosition(width, height) ==
  [x |-> 0, y |-> gridHeight, w |-> width, h |-> height]

\* the outer two loops, from candidate (x, y) on
RECURSIVE scanFrom(_, _, _, _, _)
scanFrom(grid, width, height, y, x) ==
  IF y >= gridHeight THEN fallbackPosition(width, height)
  ELSE IF x >= gridWidth - width + 1 THEN scanFrom(grid, width, height, y + 1, 0)
  ELSE IF canFit(grid, x, y, width, height)
       THEN [x |-> x, y |-> y, w |-> width, h |-> height]
       ELSE scanFrom(grid, width, height, y, x + 1)

findAvailablePosition(widgets, width, height) ==
  IF markThrows(widgets) THEN TypeError
  ELSE scanFrom(markedGrid(widgets), width, height, 0, 0)

(* --------------------------- useLocalStorage --------------------------- *)
\* what an updater function, or a plain value, hands to setValue
Returned(v) == [threw |-> FALSE, value |-> v]
Threw == [threw |-> TRUE]

\* The state a handler works on: h.state[key] is the storedValue React will
\* render next for the hook bound to key, h.storage is window.localStorage,
\* h.error the provider's error state, h.logged whether console.error was
\* called, h.exception what propagates to the caller of the handler.
\*
\* setValue: try { valueToStore = value(storedValue); setStoredValue;
\* localStorage.setItem } catch { console.error }.  The two stores of the
\* provider never hold undefined, so removeItem is not reached; both leave
\* syncAcrossTabs off.
\* h.setItemThrows: localStorage.setItem throws (QuotaExceededError); that
\* happens after setStoredValue and inside the same try.
setValue(h, key, result) ==
  IF result.threw
  THEN [h EXCEPT !.logged = TRUE]
  ELSE IF h.setItemThrows
  THEN [h EXCEPT !.state[key] = result.value,
                 !.logged = TRUE]
  ELSE [h EXCEPT !.state[key] = result.value,
                 !.storage[key] = JSONstringify(result.value)]

(* ---------------------------- Layout Manager --------------------------- *)
\* layouts?.find((layout) => layout.id === currentLayoutId) || null
currentLayoutOf(ls, id) ==
  IF \E i \in DOMAIN ls : ls[i].id = id
  THEN ls[CHOOSE i \in DOMAIN ls :
            ls[i].id = id /\ \A j \in DOMAIN ls : ls[j].id = id => i <= j]
  ELSE Null

newLayoutOf(name, t) ==
  [id |-> LayoutId(t), name |-> name, widgets |-> <<>>,
   createdAt |-> toISOString(t), updatedAt |-> toISOString(t)]

\* mutant: the new layout is stored but not made active
createLayoutNotActivated(h, prevLayouts, name, t) ==
  setValue(h, LayoutsKey, Returned(Append(prevLayouts, newLayoutOf(name, t))))

\* prevLayouts is the storedValue the setter captured at the last render
createLayout(h, prevLayouts, name, t) ==
  LET newLayout == newLayoutOf(name, t)
      h1 == setValue(h, LayoutsKey, Returned(Append(prevLayouts, newLayout)))
  IN  setValue(h1, CurrentKey, Returned(newLayout.id))

\* mutant: the pointer is set without looking the id up
switchLayoutUnchecked(h, ls, layoutId) ==
  setValue(h, CurrentKey, Returned(layoutId))

switchLayout(h, ls, layoutId) ==
  IF \E i \in DOMAIN ls : ls[i].id = layoutId
  THEN setValue(h, CurrentKey, Returned(layoutId))
  ELSE [h EXCEPT !.error = NotFound]

\* mutant: the pointer is repaired only when the list becomes empty
deleteLayoutKeepsPointer(h, prevLayouts, curId, layoutId) ==
  LET updatedLayouts == SelectSeq(prevLayouts, LAMBDA l : l.id # layoutId)
      h1 == IF Len(updatedLayouts) = 0
            THEN setValue(h, CurrentKey, Returned(""))
            ELSE h
  IN  setValue(h1, LayoutsKey, Returned(updatedLayouts))

\* the updater runs inside setValue and calls setCurrentLayoutId itself
deleteLayout(h, prevLayouts, curId, layoutId) ==
  LET updatedLayouts == SelectSeq(prevLayouts, LAMBDA l : l.id # layoutId)
      h1 == IF layoutId = curId /\ Len(updatedLayouts) > 0
            THEN setValue(h, CurrentKey, Returned(updatedLayouts[1].id))
            ELSE IF Len(updatedLayouts) = 0
                 THEN setValue(h, CurrentKey, Returned(""))
                 ELSE h
  IN  setValue(h1, LayoutsKey, Returned(updatedLayouts))

\* the updater of addWidget: prevLayouts.map(...), with the closure's
\* currentLayoutId; a throw inside it leaves nothing returned
addWidgetUpdater(prevLayouts, curId, widgetId, title, config, t) ==
  LET instanceId == InstanceId(widgetId, t)
      widgetInstance == createWidgetInstance(widgetId, instanceId, title, config, Undefined)
      dims == DEFAULT_WIDGET_DIMENSIONS[widgetInstance.size]
      hit == {i \in DOMAIN prevLayouts : prevLayouts[i].id = curId}
      positionIn(i) == findAvailablePosition(prevLayouts[i].widgets, dims.w, dims.h)
      newWidgetInstance(i) ==
        [id |-> instanceId,
         widgetId |-> widgetId,
         title |-> OrElse(title, widgetInstance.title),
         position |-> positionIn(i),
         size |-> widgetInstance.size,
         config |-> config]
  IN  IF hit = {} THEN Returned(prevLayouts)
      ELSE IF widgetInstance = Null THEN Threw
      ELSE IF \E i \in hit : positionIn(i) = TypeError THEN Threw
      ELSE Returned([i \in DOMAIN prevLayouts |->
                      IF i \in hit
                      THEN [prevLayouts[i] EXCEPT
                              !.widgets = Append(prevLayouts[i].widgets, newWidgetInstance(i)),
                              !.updatedAt = toISOString(t)]
                      ELSE prevLayouts[i]])

\* ls and curId are the layouts and currentLayoutId of the last render, and
\* so is the storedValue that both setLayouts calls apply their updater to
addWidget(h, ls, curId, widgetId, title, config, t) ==
  LET h1 == IF currentLayoutOf(ls, curId) = Null
            THEN setValue(createLayout(h, ls, "Default Layout", t),
                          CurrentKey, Returned(LayoutId(t)))
            ELSE h
  IN  setValue(h1, LayoutsKey,
               addWidgetUpdater(ls, curId, widgetId, title, config, t))

\* mutant: with an id that no instance has, the last instance is removed
removeWidgetOrLast(h, prevLayouts, curId, instanceId, t) ==
  LET without(widgets) ==
        IF \E k \in DOMAIN widgets : widgets[k].id = instanceId
        THEN SelectSeq(widgets, LAMBDA widget : widget.id # instanceId)
        ELSE SubSeq(widgets, 1, Len(widgets) - 1)
  IN  setValue(h, LayoutsKey,
        Returned([i \in DOMAIN prevLayouts |->
          IF prevLayouts[i].id # curId THEN prevLayouts[i]
          ELSE [prevLayouts[i] EXCEPT
                  !.widgets = without(prevLayouts[i].widgets),
                  !.updatedAt = toISOString(t)]]))

\* mutant: the instances that stay are placed again, one after another
RECURSIVE repack(_, _)
repack(placed, rest) ==
  IF rest = <<>> THEN placed
  ELSE LET widget == Head(rest)
           position == scanFrom(markedGrid(placed), widget.position.w,
                                widget.position.h, 0, 0)
       IN  repack(Append(placed, [widget EXCEPT !.position = position]), Tail(rest))

removeWidgetRepacks(h, prevLayouts, curId, instanceId, t) ==
  setValue(h, LayoutsKey,
    Returned([i \in DOMAIN prevLayouts |->
      IF prevLayouts[i].id # curId THEN prevLayouts[i]
      ELSE [prevLayouts[i] EXCEPT
              !.widgets = repack(<<>>, SelectSeq(prevLayouts[i].widgets,
                                                 LAMBDA widget : widget.id # instanceId)),
              !.updatedAt = toISOString(t)]]))

removeWidget(h, prevLayouts, curId, instanceId, t) ==
  setValue(h, LayoutsKey,
    Returned([i \in DOMAIN prevLayouts |->
      IF prevLayouts[i].id # curId THEN prevLayouts[i]
      ELSE [prevLayouts[i] EXCEPT
              !.widgets = SelectSeq(prevLayouts[i].widgets,
                                    LAMBDA widget : widget.id # instanceId),
              !.updatedAt = toISOString(t)]]))

\* { ...widget, ...updates }
Spread(widget, updates) ==
  [f \in DOMAIN widget \cup DOMAIN updates |->
    IF f \in DOMAIN updates THEN updates[f] ELSE widget[f]]

\* mutant: the updates go into every instance of the active layout
updateWidgetAll(h, prevLayouts, curId, instanceId, updates, t) ==
  LET mapped(widgets) == [k \in DOMAIN widgets |-> Spread(widgets[k], updates)]
  IN  setValue(h, LayoutsKey,
        Returned([i \in DOMAIN prevLayouts |->
          IF prevLayouts[i].id # curId THEN prevLayouts[i]
          ELSE [prevLayouts[i] EXCEPT
                  !.widgets = mapped(prevLayouts[i].widgets),
                  !.updatedAt = toISOString(t)]]))

updateWidget(h, prevLayouts, curId, instanceId, updates, t) ==
  LET mapped(widgets) ==
        [k \in DOMAIN widgets |->
          IF widgets[k].id # instanceId THEN widgets[k]
          ELSE Spread(widgets[k], updates)]
  IN  setValue(h, LayoutsKey,
        Returned([i \in DOMAIN prevLayouts |->
          IF prevLayouts[i].id # curId THEN prevLayouts[i]
          ELSE [prevLayouts[i] EXCEPT
                  !.widgets = mapped(prevLayouts[i].widgets),
                  !.updatedAt = toISOString(t)]]))

\* updates.find((u) => u.id === widget.id): the first entry with that id
findUpdate(updates, id) ==
  updates[CHOOSE n \in DOMAIN updates :
            updates[n].id = id /\ \A m \in DOMAIN updates : updates[m].id = id => n <= m]

\* mutant: a batch that makes two rectangles intersect is dropped
updateWidgetPositionsChecked(h, prevLayouts, curId, updates, t) ==
  LET mapped(widgets) ==
        [k \in DOMAIN widgets |->
          IF ~\E n \in DOMAIN updates : updates[n].id = widgets[k].id
          THEN widgets[k]
          ELSE [widgets[k] EXCEPT
                  !.position = findUpdate(updates, widgets[k].id).position]]
      disjoint(widgets) ==
        \A k, m \in DOMAIN widgets :
          k < m => \/ widgets[k].position.x + widgets[k].position.w <= widgets[m].position.x
                   \/ widgets[m].position.x + widgets[m].position.w <= widgets[k].position.x
                   \/ widgets[k].position.y + widgets[k].position.h <= widgets[m].position.y
                   \/ widgets[m].position.y + widgets[m].position.h <= widgets[k].position.y
  IN  setValue(h, LayoutsKey,
        Returned([i \in DOMAIN prevLayouts |->
          IF prevLayouts[i].id # curId THEN prevLayouts[i]
          ELSE [prevLayouts[i] EXCEPT
                  !.widgets = IF disjoint(mapped(prevLayouts[i].widgets))
                              THEN mapped(prevLayouts[i].widgets)
                              ELSE prevLayouts[i].widgets,
                  !.updatedAt = toISOString(t)]]))

updateWidgetPositions(h, prevLayouts, curId, updates, t) ==
  LET mapped(widgets) ==
        [k \in DOMAIN widgets |->
          IF ~\E n \in DOMAIN updates : updates[n].id = widgets[k].id
          THEN widgets[k]
          ELSE [widgets[k] EXCEPT
                  !.position = findUpdate(updates, widgets[k].id).position]]
  IN  setValue(h, LayoutsKey,
        Returned([i \in DOMAIN prevLayouts |->
          IF prevLayouts[i].id # curId THEN prevLayouts[i]
          ELSE [prevLayouts[i] EXCEPT
                  !.widgets = mapped(prevLayouts[i].widgets),
                  !.updatedAt = toISOString(t)]]))

(* ---------------------------- useWidgetConfig -------------------------- *)
\* the widget instance the editor is opened on; no initialConfig is passed
ConfigWidgetId == "status-widget"
ConfigInstanceId == InstanceId(ConfigWidgetId, 0)
ConfigKey == ConfigKeyOf(ConfigWidgetId, ConfigInstanceId)

\* widget?.metadata?.defaultConfig || {}: an object with the one key items
defaultConfig == "items" :> widgetRegistry[ConfigWidgetId].defaultConfig

\* the defaultValue handed to useLocalStorage by the render at instant t
defaultConfigData(t) ==
  [widgetId |-> ConfigWidgetId,
   instanceId |-> ConfigInstanceId,
   settings |-> defaultConfig,
   version |-> "1.0.0",
   updatedAt |-> toISOString(t)]

\* newConfig is an object, or a function (currentConfig) => ({...currentConfig,
\* ...merge}), the one shape of function the callers pass
ConfigObject(object) == [fn |-> FALSE, object |-> object]
ConfigFunction(merge) == [fn |-> TRUE, merge |-> merge]
applyNewConfig(newConfig, prevConfig) ==
  IF newConfig.fn THEN Spread(prevConfig, newConfig.merge) ELSE newConfig.object

\* currentData is the storedValue of the last render
updateConfig(h, currentData, newConfig, t) ==
  setValue(h, ConfigKey,
    Returned(IF currentData = Null
             THEN [widgetId |-> ConfigWidgetId,
                   instanceId |-> ConfigInstanceId,
                   settings |-> applyNewConfig(newConfig, defaultConfig),
                   version |-> "1.0.0",
                   updatedAt |-> toISOString(t)]
             ELSE [currentData EXCEPT
                     !.settings = applyNewConfig(newConfig, currentData.settings),
                     !.updatedAt = toISOString(t)]))

setConfigProperty(h, currentData, property, value, t) ==
  updateConfig(h, currentData, ConfigFunction(property :> value), t)

resetConfig(h, t) == setValue(h, ConfigKey, Returned(defaultConfigData(t)))

\* useLocalStorage.removeItem: localStorage.removeItem(key); setStoredValue(undefined)
removeItem(h, key) ==
  [h EXCEPT !.storage[key] = NoItem, !.state[key] = Null]

clearConfig(h) == removeItem(h, ConfigKey)

(* ------------------ useLocalStorage with syncAcrossTabs ---------------- *)
\* JavaScript values a store is set to, by type and source text
Value(type, text) == [type |-> type, text |-> text]
UndefinedValue == Value("undefined", "undefined")
SyncValues ==
  {Value("boolean", "true"), Value("number", "7"),
   Value("string", "dark"), Value("string", "7"),
   Value("object", "{\"theme\":\"dark\"}")}

\* String(valueToStore), as a text handed to JSON.parse: the text of a
\* number or a boolean is its JSON text; the text of a string is the string
\* without quotes, JSON only where it spells a number or a boolean; the text
\* of an object is [object Object]
StringOf(v) ==
  CASE v.type \in {"number", "boolean"} -> JSONstringify(v)
    [] v.type = "string" /\ Value("number", v.text) \in SyncValues
         -> JSONstringify(Value("number", v.text))
    [] v.type = "string" /\ Value("boolean", v.text) \in SyncValues
         -> JSONstringify(Value("boolean", v.text))
    [] v.type = "string" -> <<"text", v.text>>
    [] v.type = "object" -> <<"text", "[object Object]">>

\* the hooks of the page: two on "theme" and one on "is-dark-mode" in this
\* window, one on "theme" in another tab
ThemeKey == "theme"
DarkModeKey == "is-dark-mode"
SyncStoreNames == {"first", "second", "dark", "otherTab"}
ThisWindow == {"first", "second", "dark"}
KeyOfStore == [name \in SyncStoreNames |-> IF name = "dark" THEN DarkModeKey ELSE ThemeKey]

\* handleStorageChange of one hook for the event e = [key, newValue]: the
\* storedValue it leaves and whether it logged
handleStorageChange(key, storedValue, e) ==
  IF e.key # key THEN [value |-> storedValue, logged |-> FALSE]
  ELSE IF e.newValue = NoItem THEN [value |-> UndefinedValue, logged |-> FALSE]
  ELSE IF parseThrows(e.newValue) THEN [value |-> storedValue, logged |-> TRUE]
  ELSE [value |-> JSONparse(e.newValue), logged |-> FALSE]

\* window.dispatchEvent(e): the listeners of every hook of this window run
dispatchEvent(stores, e) ==
  [name \in SyncStoreNames |->
    IF name \in ThisWindow
    THEN handleStorageChange(KeyOfStore[name], stores[name], e).value
    ELSE stores[name]]

(* ---------------------------- useWidgetStorage ------------------------- *)
\* the hook is used for the instance the editor is opened on, storageName
\* left at "data", initialData not passed
WidgetStorageKey == StorageKeyOf(ConfigWidgetId, ConfigInstanceId, "data")
\* data are lists of strings; undefined is the empty list
\* options.schemaVersion and options.migrate of a mounted hook: no migrate,
\* one that returns ("upgrade") or one that throws
Unmounted == [mounted |-> FALSE]
StorageOptions(schemaVersion, migrate) ==
  [mounted |-> TRUE, schemaVersion |-> schemaVersion, migrate |-> migrate]

\* the migrate function a widget passes: it records what it was called with
migrate(data, fromVersion, toVersion) == data \o <<fromVersion, toVersion>>

\* the record updateData stores
storageRecord(currentStorage, updatedData, schemaVersion, t) ==
  [data |-> updatedData,
   metadata |->
     [widgetId |-> ConfigWidgetId,
      instanceId |-> ConfigInstanceId,
      version |-> schemaVersion,
      createdAt |-> IF currentStorage = UndefinedValue THEN toISOString(t)
                    ELSE currentStorage.metadata.createdAt,
      updatedAt |-> toISOString(t),
      schema |-> schemaVersion]]

\* the record the data memo stores after a migration
migratedRecord(storageData, migratedData, schemaVersion, t) ==
  [data |-> migratedData,
   metadata |-> [storageData.metadata EXCEPT !.version = schemaVersion,
                                             !.schema = schemaVersion,
                                             !.updatedAt = toISOString(t)]]

needsMigration(storageData, options) ==
  /\ storageData # UndefinedValue
  /\ options.migrate # "none"
  /\ storageData.metadata.schema # options.schemaVersion

\* mutant: the migrated data are returned and the record is not stored
dataMemoNotStored(storageData, storage, options, t) ==
  IF storageData = UndefinedValue
  THEN [data |-> <<>>, storageData |-> storageData, storage |-> storage,
        called |-> 0, logged |-> FALSE]
  ELSE IF needsMigration(storageData, options) /\ options.migrate = "upgrade"
  THEN [data |-> migrate(storageData.data, storageData.metadata.schema, options.schemaVersion),
        storageData |-> storageData, storage |-> storage,
        called |-> 1, logged |-> FALSE]
  ELSE [data |-> storageData.data, storageData |-> storageData, storage |-> storage,
        called |-> IF needsMigration(storageData, options) THEN 1 ELSE 0,
        logged |-> needsMigration(storageData, options)]

\* the data memo of one render, with the render its setStorageData causes:
\* the data returned, the storedValue and the storage left, how often migrate
\* was called and whether console.error was
dataMemo(storageData, storage, options, t) ==
  IF storageData = UndefinedValue
  THEN [data |-> <<>>, storageData |-> storageData, storage |-> storage,
        called |-> 0, logged |-> FALSE]
  ELSE IF needsMigration(storageData, options) /\ options.migrate = "upgrade"
  THEN LET migratedData == migrate(storageData.data, storageData.metadata.schema,
                                   options.schemaVersion)
           record == migratedRecord(storageData, migratedData, options.schemaVersion, t)
       IN  [data |-> migratedData,
            storageData |-> record,
            storage |-> [storage EXCEPT ![WidgetStorageKey] = JSONstringify(record)],
            called |-> 1, logged |-> FALSE]
  ELSE [data |-> storageData.data, storageData |-> storageData, storage |-> storage,
        called |-> IF needsMigration(storageData, options) THEN 1 ELSE 0,
        logged |-> needsMigration(storageData, options)]

(* -------------------------------- WidgetGrid --------------------------- *)
GridKey == "dashboardWidgets"

\* the widgets shown when no widgets prop is passed; content is a React
\* element
defaultWidgets ==
  <<[id |-> "widget-1", size |-> "medium", content |-> "element"],
    [id |-> "widget-2", size |-> "small", content |-> "element"],
    [id |-> "widget-3", size |-> "large", content |-> "element"],
    [id |-> "widget-4", size |-> "small", content |-> "element"]>>

\* JSON.stringify(activeWidgets): of a React element the plain properties
\* are written, and JSON.parse gives back a plain object
stringifyWidgets(widgets) ==
  JSONstringify([k \in DOMAIN widgets |-> [widgets[k] EXCEPT !.content = "object"]])

\* the effect on [activeWidgets]
saveEffect(storage, widgets) ==
  [storage EXCEPT ![GridKey] = stringifyWidgets(widgets)]

\* the effect on []: what activeWidgets is after it, and whether it logged
loadEffect(storage, widgets) ==
  IF storage[GridKey] = NoItem THEN [widgets |-> widgets, logged |-> FALSE]
  ELSE IF parseThrows(storage[GridKey]) THEN [widgets |-> widgets, logged |-> TRUE]
  ELSE [widgets |-> JSONparse(storage[GridKey]), logged |-> FALSE]

\* the effects of the mount in the order of their declaration, and the save
\* effect of the render that the load effect causes
mountEffects(storage, widgets) ==
  LET saved == saveEffect(storage, widgets)
      loaded == loadEffect(saved, widgets)
  IN  [widgets |-> loaded.widgets,
       storage |-> saveEffect(saved, loaded.widgets),
       logged |-> loaded.logged]

nextSize(size) ==
  CASE size = "small" -> "medium"
    [] size = "medium" -> "large"
    [] size = "large" -> "small"

resizeInGrid(widgets, id) ==
  [k \in DOMAIN widgets |->
    IF widgets[k].id = id
    THEN [widgets[k] EXCEPT !.size = nextSize(widgets[k].size)]
    ELSE widgets[k]]

\* the two splices of handleDrop; targetIndex counts from 0
moveInGrid(widgets, id, targetIndex) ==
  LET moved == CHOOSE k \in DOMAIN widgets : widgets[k].id = id
      rest == SubSeq(widgets, 1, moved - 1) \o SubSeq(widgets, moved + 1, Len(widgets))
      at == IF targetIndex < Len(rest) THEN targetIndex ELSE Len(rest)
  IN  SubSeq(rest, 1, at) \o <<widgets[moved]>> \o SubSeq(rest, at + 1, Len(rest))

(* --------------------------------- DevTools ---------------------------- *)
ConfigsKey == "widget-configs"
NoSelection == "null"

defaultConfigs ==
  <<[id |-> "widget-1", name |-> "Analytics Dashboard", config |-> "default"],
    [id |-> "widget-2", name |-> "User Activity", config |-> "default"],
    [id |-> "widget-3", name |-> "System Status", config |-> "default"]>>

\* the load effect: the list it sets and the storage it leaves
loadConfigs(storage) ==
  IF storage[ConfigsKey] = NoItem
  THEN [configs |-> defaultConfigs,
        storage |-> [storage EXCEPT ![ConfigsKey] = JSONstringify(defaultConfigs)],
        logged |-> FALSE]
  ELSE IF parseThrows(storage[ConfigsKey])
  THEN [configs |-> <<>>, storage |-> storage, logged |-> TRUE]
  ELSE [configs |-> JSONparse(storage[ConfigsKey]), storage |-> storage, logged |-> FALSE]

\* the effect on [widgetConfigs]
persistConfigs(storage, configs) ==
  IF Len(configs) > 0
  THEN [storage EXCEPT ![ConfigsKey] = JSONstringify(configs)]
  ELSE storage

(* ------------------------------- state --------------------------------- *)
VARIABLES
  layouts,          \* storedValue of useLocalStorage("dashboard-layouts") as rendered
  currentLayoutId,  \* storedValue of useLocalStorage("current-dashboard-layout") as rendered
  localStorage,     \* window.localStorage: key -> NoItem or the JSON text
  error,            \* the provider's error state
  now,              \* the value Date.now() returns
  call,             \* the step taken last: the handler, its arguments, the active
                    \* layout it was called with and how it ended
  syncStores,       \* storedValue of each useLocalStorage hook with syncAcrossTabs
  storageEvents,    \* native storage events on their way to the other tab
  storageOptions,   \* the options useWidgetStorage is mounted with, or Unmounted
  storageData,      \* storedValue of the hook of useWidgetStorage as rendered
  widgetData,       \* the data useWidgetStorage returned in the last render
  migrateCalls,     \* how often options.migrate was called since the mount
  mounted,          \* which of WidgetGrid and DevTools are on the page
  activeWidgets,    \* activeWidgets of WidgetGrid as rendered
  widgetConfigs,    \* widgetConfigs of DevTools as rendered
  selectedWidget    \* selectedWidget of DevTools

syncVars == <<syncStores, storageEvents>>
widgetStorageVars == <<storageOptions, storageData, widgetData, migrateCalls>>
devToolsVars == <<widgetConfigs, selectedWidget>>
pageVars == <<syncVars, widgetStorageVars, mounted, activeWidgets, devToolsVars>>

vars == <<layouts, currentLayoutId, localStorage, error, now, call, pageVars>>

currentLayout == currentLayoutOf(layouts, currentLayoutId)

\* what a handler starts from
Entry ==
  [state |-> (LayoutsKey :> layouts) @@ (CurrentKey :> currentLayoutId),
   storage |-> localStorage,
   error |-> error,
   setItemThrows |-> FALSE,
   logged |-> FALSE,
   exception |-> NoError]

\* The re-render after a handler.  The options object of the layouts hook
\* holds a fresh [] on every render, so getStoredValue is a new callback each
\* time and the mount effect re-reads the key after every render; the
\* default "" of the other hook is stable and its effect runs at mount only.
Rendered(h, op) ==
  /\ layouts' = getStoredValue(h.storage, LayoutsKey, <<>>)
  /\ currentLayoutId' = h.state[CurrentKey]
  /\ localStorage' = h.storage
  /\ error' = h.error
  /\ call' = op @@ [active |-> currentLayoutId,
                    hadLayout |-> currentLayoutOf(layouts, currentLayoutId) # Null,
                    logged |-> h.logged,
                    exception |-> h.exception]
  /\ UNCHANGED pageVars

Init ==
  /\ localStorage = (LayoutsKey :> NoItem) @@ (CurrentKey :> NoItem)
                      @@ (ConfigKey :> NoItem)
                      @@ (ThemeKey :> NoItem) @@ (DarkModeKey :> NoItem)
                      @@ (WidgetStorageKey :> NoItem)
                      @@ (GridKey :> NoItem) @@ (ConfigsKey :> NoItem)
  /\ layouts = getStoredValue(localStorage, LayoutsKey, <<>>)
  /\ currentLayoutId = getStoredValue(localStorage, CurrentKey, "")
  /\ error = NoError
  /\ now = 0
  /\ call = [op |-> "mount"]
  /\ syncStores = [name \in SyncStoreNames |->
                     getStoredValue(localStorage, KeyOfStore[name], UndefinedValue)]
  /\ storageEvents = <<>>
  /\ storageOptions = Unmounted
  /\ storageData = UndefinedValue
  /\ widgetData = <<>>
  /\ migrateCalls = 0
  /\ mounted = {}
  /\ activeWidgets = <<>>
  /\ widgetConfigs = <<>>
  /\ selectedWidget = NoSelection

(* ------------------------------- inputs -------------------------------- *)
NameInputs == {"Ops"}
WidgetIdInputs == {"status-widget", "no-such-widget"}
TitleInputs == {Undefined}
ConfigInputs == {Undefined}
\* the ids of the layouts in the list, and one that is not among them
LayoutIdInputs == {layouts[i].id : i \in DOMAIN layouts} \cup {"layout-missing"}

\* the instance ids present in some layout, and one that is in none
InstanceIdInputs ==
  UNION {{layouts[i].widgets[k].id : k \in DOMAIN layouts[i].widgets} : i \in DOMAIN layouts}
    \cup {"widget-missing"}

PositionInputs == {[x |-> 1, y |-> 0, w |-> 2, h |-> 1]}

UpdatesInputs == {[title |-> "Renamed"]}

PositionUpdatesInputs ==
  {<<[id |-> id, position |-> p]>> : id \in InstanceIdInputs, p \in PositionInputs}

\* the layouts addWidget, removeWidget, ... write to
Targets == {i \in DOMAIN layouts : layouts[i].id = currentLayoutId}

\* the number of instances in all layouts together
RECURSIVE SumLen(_)
SumLen(ls) == IF ls = <<>> THEN 0 ELSE Len(Head(ls).widgets) + SumLen(Tail(ls))
WidgetCount == SumLen(layouts)

(* ------------------------------- actions ------------------------------- *)
Tick ==
  /\ now < MaxClock
  /\ now' = now + 1
  /\ call' = [op |-> "tick"]
  /\ UNCHANGED <<layouts, currentLayoutId, localStorage, error, pageVars>>

CreateLayout(name) ==
  /\ Len(layouts) < MaxLayouts
  /\ Rendered(createLayout(Entry, layouts, name, now),
              [op |-> "createLayout", name |-> name])
  /\ UNCHANGED now

SwitchLayout(layoutId) ==
  /\ Rendered(switchLayout(Entry, layouts, layoutId),
              [op |-> "switchLayout", layoutId |-> layoutId])
  /\ UNCHANGED now

DeleteLayout(layoutId) ==
  /\ Rendered(deleteLayout(Entry, layouts, currentLayoutId, layoutId),
              [op |-> "deleteLayout", layoutId |-> layoutId])
  /\ UNCHANGED now

AddWidget(widgetId, title, config) ==
  /\ WidgetCount < MaxWidgets
  /\ Rendered(addWidget(Entry, layouts, currentLayoutId, widgetId, title, config, now),
              [op |-> "addWidget", widgetId |-> widgetId, title |-> title, config |-> config])
  /\ UNCHANGED now

RemoveWidget(instanceId) ==
  /\ Rendered(removeWidget(Entry, layouts, currentLayoutId, instanceId, now),
              [op |-> "removeWidget", instanceId |-> instanceId])
  /\ UNCHANGED now

UpdateWidget(instanceId, updates) ==
  /\ Rendered(updateWidget(Entry, layouts, currentLayoutId, instanceId, updates, now),
              [op |-> "updateWidget", instanceId |-> instanceId, updates |-> updates])
  /\ UNCHANGED now

UpdateWidgetPositions(updates) ==
  /\ Rendered(updateWidgetPositions(Entry, layouts, currentLayoutId, updates, now),
              [op |-> "updateWidgetPositions", updates |-> updates])
  /\ UNCHANGED now

\* The effect on [currentLayout]: with a current layout it ends in
\* setError(null).  (Its widgets and isLoading state is not modelled.)
InitializeWidgets ==
  /\ currentLayout # Null
  /\ error # NoError
  /\ error' = NoError
  /\ call' = [op |-> "effect"]
  /\ UNCHANGED <<layouts, currentLayoutId, localStorage, now, pageVars>>

Next ==
  \/ Tick
  \/ \E name \in NameInputs : CreateLayout(name)
  \/ \E layoutId \in LayoutIdInputs : SwitchLayout(layoutId)
  \/ \E layoutId \in LayoutIdInputs : DeleteLayout(layoutId)
  \/ \E widgetId \in WidgetIdInputs, title \in TitleInputs, config \in ConfigInputs :
       AddWidget(widgetId, title, config)
  \/ \E instanceId \in InstanceIdInputs : RemoveWidget(instanceId)
  \/ \E instanceId \in InstanceIdInputs, updates \in UpdatesInputs :
       UpdateWidget(instanceId, updates)
  \/ \E updates \in PositionUpdatesInputs : UpdateWidgetPositions(updates)
  \/ InitializeWidgets

Spec == Init /\ [][Next]_vars

(* --------------- placement: addWidget calls, one after another --------- *)
PlaceInputs == {"status-widget", "analytics-chart", "code-editor"}

NonLargeCount(widgets) ==
  Cardinality({k \in DOMAIN widgets : widgets[k].size # "large"})

OpenLayout ==
  /\ layouts = <<>>
  /\ \E name \in NameInputs : CreateLayout(name)

\* one click on "add" per millisecond or slower
PlaceWidget(widgetId) ==
  /\ currentLayout # Null
  /\ Len(currentLayout.widgets) < MaxPlaced
  /\ widgetRegistry[widgetId].defaultSize # "large"
       => NonLargeCount(currentLayout.widgets) < MaxNonLarge
  /\ Rendered(addWidget(Entry, layouts, currentLayoutId, widgetId, Undefined, Undefined, now),
              [op |-> "addWidget", widgetId |-> widgetId,
               title |-> Undefined, config |-> Undefined])
  /\ now' = now + 1

NextPlace ==
  \/ OpenLayout
  \/ \E widgetId \in PlaceInputs : PlaceWidget(widgetId)

SpecPlace == Init /\ [][NextPlace]_vars

(* ------------- the two stores of the provider and their storage ------- *)
\* a handler that runs while localStorage has no room left
EntryFull == [Entry EXCEPT !.setItemThrows = TRUE]

\* call.stored: what the setters handed to setStoredValue
RenderedFull(h, op) ==
  Rendered(h, op @@ [full |-> h.setItemThrows, stored |-> h.state])

CreateLayoutFull(name) ==
  /\ Len(layouts) < MaxLayouts
  /\ RenderedFull(createLayout(EntryFull, layouts, name, now),
                  [op |-> "createLayout", name |-> name])
  /\ UNCHANGED now

SwitchLayoutFull(layoutId) ==
  /\ RenderedFull(switchLayout(EntryFull, layouts, layoutId),
                  [op |-> "switchLayout", layoutId |-> layoutId])
  /\ UNCHANGED now

DeleteLayoutFull(layoutId) ==
  /\ RenderedFull(deleteLayout(EntryFull, layouts, currentLayoutId, layoutId),
                  [op |-> "deleteLayout", layoutId |-> layoutId])
  /\ UNCHANGED now

StoreKeys == {LayoutsKey, CurrentKey}

\* the text of a key is damaged from outside the page
Corrupt(key) ==
  /\ localStorage[key] # CorruptText
  /\ localStorage' = [localStorage EXCEPT ![key] = CorruptText]
  /\ call' = [op |-> "corrupt", key |-> key]
  /\ UNCHANGED <<layouts, currentLayoutId, error, now, pageVars>>

\* the page is loaded again: useState() starts over and the mount effect of
\* each hook reads its key
Reload ==
  /\ layouts' = getStoredValue(localStorage, LayoutsKey, <<>>)
  /\ currentLayoutId' = getStoredValue(localStorage, CurrentKey, "")
  /\ error' = NoError
  /\ call' = [op |-> "mount"]
  /\ UNCHANGED <<localStorage, now, pageVars>>

NextStore ==
  \/ Tick
  \/ \E name \in NameInputs : CreateLayout(name)
  \/ \E layoutId \in LayoutIdInputs : SwitchLayout(layoutId)
  \/ \E layoutId \in LayoutIdInputs : DeleteLayout(layoutId)
  \/ \E name \in NameInputs : CreateLayoutFull(name)
  \/ \E layoutId \in LayoutIdInputs : SwitchLayoutFull(layoutId)
  \/ \E layoutId \in LayoutIdInputs : DeleteLayoutFull(layoutId)
  \/ \E key \in StoreKeys : Corrupt(key)
  \/ Reload

SpecStore == Init /\ [][NextStore]_vars

(* ------------- one layout: instances added, changed, removed ---------- *)
InstInputs == {"status-widget", "analytics-chart"}

\* what a rename, and what a resize with its new settings, pass to updateWidget
InstUpdatesInputs ==
  {[title |-> "Renamed"],
   [size |-> "large", config |-> "custom", position |-> [x |-> 0, y |-> 0, w |-> 2, h |-> 2]]}

\* where a drag can drop an instance
DropInputs == {[x |-> 0, y |-> 0, w |-> 2, h |-> 1]}

DropEntries == {[id |-> id, position |-> p] : id \in InstanceIdInputs, p \in DropInputs}

\* batches of one entry, and of two entries for different ids
BatchInputs ==
  {<<e>> : e \in DropEntries}
    \cup {b \in {<<e, f>> : e \in DropEntries, f \in DropEntries} : b[1].id # b[2].id}

\* one addWidget per millisecond or slower, MaxInst of them in all
PlaceInst(widgetId) ==
  /\ currentLayout # Null
  /\ now < MaxInst
  /\ Rendered(addWidget(Entry, layouts, currentLayoutId, widgetId, Undefined, Undefined, now),
              [op |-> "addWidget", widgetId |-> widgetId,
               title |-> Undefined, config |-> Undefined])
  /\ now' = now + 1

NextInst ==
  \/ OpenLayout
  \/ \E widgetId \in InstInputs : PlaceInst(widgetId)
  \/ \E instanceId \in InstanceIdInputs : RemoveWidget(instanceId)
  \/ \E instanceId \in InstanceIdInputs, updates \in InstUpdatesInputs :
       UpdateWidget(instanceId, updates)
  \/ \E updates \in BatchInputs : UpdateWidgetPositions(updates)

SpecInst == Init /\ [][NextInst]_vars

(* ------- one layout: instances dragged out of the grid, then adds ------ *)
\* rectangles a drag or a resize can leave an instance with: left of the
\* grid, above it, over its right and lower edge, and over rows 0..8
OutsideInputs ==
  {[x |-> -1, y |-> 0, w |-> 2, h |-> 1],
   [x |-> 0, y |-> -1, w |-> 1, h |-> 1],
   [x |-> 3, y |-> 9, w |-> 2, h |-> 2],
   [x |-> 0, y |-> 0, w |-> 4, h |-> 9]}

\* one addWidget per millisecond or slower, MaxClip of them in all
PlaceClip(widgetId) ==
  /\ currentLayout # Null
  /\ now < MaxClip
  /\ Rendered(addWidget(Entry, layouts, currentLayoutId, widgetId, Undefined, Undefined, now),
              [op |-> "addWidget", widgetId |-> widgetId,
               title |-> Undefined, config |-> Undefined])
  /\ now' = now + 1

NextClip ==
  \/ OpenLayout
  \/ \E widgetId \in {"status-widget", "code-editor"} : PlaceClip(widgetId)
  \/ \E id \in InstanceIdInputs \ {"widget-missing"}, position \in OutsideInputs :
       UpdateWidgetPositions(<<[id |-> id, position |-> position]>>)

SpecClip == Init /\ [][NextClip]_vars

(* ---- one layout: adds at any pace, and the keys of their instances ---- *)
\* addWidget, the clock standing still: two calls can fall in one millisecond
AddKeyed(widgetId) ==
  /\ currentLayout # Null
  /\ Len(currentLayout.widgets) < MaxKeyed
  /\ Rendered(addWidget(Entry, layouts, currentLayoutId, widgetId, Undefined, Undefined, now),
              [op |-> "addWidget", widgetId |-> widgetId,
               title |-> Undefined, config |-> Undefined])
  /\ UNCHANGED now

NextKeyed ==
  \/ Tick
  \/ OpenLayout
  \/ \E widgetId \in {"status-widget", "data-display"} : AddKeyed(widgetId)
  \/ \E instanceId \in InstanceIdInputs : RemoveWidget(instanceId)

SpecKeyed == Init /\ [][NextKeyed]_vars

(* ------------- stores that announce their writes to one another ------- *)
\* the browser queues a storage event for the other tab when the text under
\* the key changed
queued(key, text) ==
  IF localStorage[key] = text THEN storageEvents
  ELSE Append(storageEvents, [key |-> key, newValue |-> text])

\* setValue(v) through one hook of this window: setStoredValue, setItem,
\* then the synthetic StorageEvent with String(v), handled by every hook of
\* this window before setValue returns
SetSync(name, v) ==
  LET key == KeyOfStore[name]
      e == [key |-> key, newValue |-> StringOf(v)]
      set == [syncStores EXCEPT ![name] = v]
  IN  /\ Len(storageEvents) < MaxEvents
      /\ syncStores' = dispatchEvent(set, e)
      /\ localStorage' = [localStorage EXCEPT ![key] = JSONstringify(v)]
      /\ storageEvents' = queued(key, JSONstringify(v))
      /\ call' = [op |-> "set", store |-> name, value |-> v,
                  logged |-> \E other \in ThisWindow :
                    handleStorageChange(KeyOfStore[other], set[other], e).logged]
      /\ UNCHANGED <<layouts, currentLayoutId, error, now, widgetStorageVars, mounted, activeWidgets, devToolsVars>>

\* removeItem() through one hook of this window
RemoveSync(name) ==
  LET key == KeyOfStore[name]
      e == [key |-> key, newValue |-> NoItem]
      removed == [syncStores EXCEPT ![name] = UndefinedValue]
  IN  /\ Len(storageEvents) < MaxEvents
      /\ syncStores' = dispatchEvent(removed, e)
      /\ localStorage' = [localStorage EXCEPT ![key] = NoItem]
      /\ storageEvents' = queued(key, NoItem)
      /\ call' = [op |-> "remove", store |-> name, value |-> UndefinedValue,
                  logged |-> \E other \in ThisWindow :
                    handleStorageChange(KeyOfStore[other], removed[other], e).logged]
      /\ UNCHANGED <<layouts, currentLayoutId, error, now, widgetStorageVars, mounted, activeWidgets, devToolsVars>>

\* the other tab handles the oldest storage event of the browser
DeliverStorageEvent ==
  /\ storageEvents # <<>>
  /\ LET e == Head(storageEvents)
         handled == handleStorageChange(KeyOfStore["otherTab"], syncStores["otherTab"], e)
     IN  /\ syncStores' = [syncStores EXCEPT !["otherTab"] = handled.value]
         /\ call' = [op |-> "storage", key |-> e.key, newValue |-> e.newValue,
                     logged |-> handled.logged]
  /\ storageEvents' = Tail(storageEvents)
  /\ UNCHANGED <<layouts, currentLayoutId, localStorage, error, now, widgetStorageVars, mounted, activeWidgets, devToolsVars>>

NextSync ==
  \/ \E name \in {"first", "dark"}, v \in SyncValues : SetSync(name, v)
  \/ \E name \in {"first", "dark"} : RemoveSync(name)
  \/ DeliverStorageEvent

SpecSync == Init /\ [][NextSync]_vars

(* ------------- a widget's stored data across schema versions ---------- *)
\* what one render of the mounted hook leaves
RenderedStorage(stored, storage, options, calls, op) ==
  LET memo == dataMemo(stored, storage, options, now)
  IN  /\ storageOptions' = options
      /\ storageData' = memo.storageData
      /\ widgetData' = memo.data
      /\ migrateCalls' = calls + memo.called
      /\ localStorage' = memo.storage
      /\ call' = op @@ [logged |-> memo.logged]
      /\ UNCHANGED <<layouts, currentLayoutId, error, now, syncVars, mounted, activeWidgets, devToolsVars>>

\* the widget is mounted: the mount effect reads the key, the memo runs
\* (data that went through migrate often enough are left alone)
MountStorage(schemaVersion, migrateOption) ==
  /\ storageOptions = Unmounted
  /\ localStorage[WidgetStorageKey] # NoItem
       => Len(JSONparse(localStorage[WidgetStorageKey]).data) < MaxDataLen
  /\ RenderedStorage(getStoredValue(localStorage, WidgetStorageKey, UndefinedValue),
                     localStorage, StorageOptions(schemaVersion, migrateOption), 0,
                     [op |-> "mountStorage"])

\* a later render; migrate is an inline function, so the memo runs again
RenderStorage ==
  /\ storageOptions # Unmounted
  /\ migrateCalls < MaxMigrateCalls
  /\ RenderedStorage(storageData, localStorage, storageOptions, migrateCalls,
                     [op |-> "renderStorage"])

\* updateData(newData) and the render after it
UpdateData(newData) ==
  /\ storageOptions # Unmounted
  /\ LET record == storageRecord(storageData, newData, storageOptions.schemaVersion, now)
     IN  RenderedStorage(record,
                         [localStorage EXCEPT ![WidgetStorageKey] = JSONstringify(record)],
                         storageOptions, migrateCalls, [op |-> "updateData"])

\* clearData() and the render after it
ClearData ==
  /\ storageOptions # Unmounted
  /\ RenderedStorage(UndefinedValue, [localStorage EXCEPT ![WidgetStorageKey] = NoItem],
                     storageOptions, migrateCalls, [op |-> "clearData"])

\* the widget is unmounted, to be mounted again by this or a later version
UnmountStorage ==
  /\ storageOptions # Unmounted
  /\ storageOptions' = Unmounted
  /\ storageData' = UndefinedValue
  /\ widgetData' = <<>>
  /\ migrateCalls' = 0
  /\ call' = [op |-> "unmountStorage"]
  /\ UNCHANGED <<layouts, currentLayoutId, localStorage, error, now, syncVars, mounted, activeWidgets, devToolsVars>>

NextMigrate ==
  \/ Tick
  \/ \E schemaVersion \in {"1.0.0", "2.0.0"}, migrateOption \in {"none", "upgrade", "throws"} :
       MountStorage(schemaVersion, migrateOption)
  \/ RenderStorage
  \/ \E newData \in {<<"a">>, <<"b">>} : UpdateData(newData)
  \/ ClearData
  \/ UnmountStorage

SpecMigrate == Init /\ [][NextMigrate]_vars

(* ----------------- the grid of widgets, across page loads ------------- *)
\* the render after a handler of the grid, and its save effect
RenderedGrid(widgets, op) ==
  /\ activeWidgets' = widgets
  /\ localStorage' = saveEffect(localStorage, widgets)
  /\ call' = op
  /\ UNCHANGED <<layouts, currentLayoutId, error, now, syncVars, widgetStorageVars,
                 mounted, devToolsVars>>

\* the grid is mounted without a widgets prop: first render, the two effects
MountGrid ==
  /\ "WidgetGrid" \notin mounted
  /\ mounted' = mounted \cup {"WidgetGrid"}
  /\ LET after == mountEffects(localStorage, defaultWidgets)
     IN  /\ activeWidgets' = after.widgets
         /\ localStorage' = after.storage
         /\ call' = [op |-> "mountGrid", logged |-> after.logged]
  /\ UNCHANGED <<layouts, currentLayoutId, error, now, syncVars, widgetStorageVars,
                 devToolsVars>>

HandleRemoveWidget(id) ==
  /\ "WidgetGrid" \in mounted
  /\ LET Keep(widget) == widget.id # id
     IN  RenderedGrid(SelectSeq(activeWidgets, Keep), [op |-> "handleRemoveWidget", id |-> id])

HandleResizeWidget(id) ==
  /\ "WidgetGrid" \in mounted
  /\ RenderedGrid(resizeInGrid(activeWidgets, id), [op |-> "handleResizeWidget", id |-> id])

HandleDrop(id, targetIndex) ==
  /\ "WidgetGrid" \in mounted
  /\ targetIndex < Len(activeWidgets)
  /\ RenderedGrid(moveInGrid(activeWidgets, id, targetIndex),
                  [op |-> "handleDrop", id |-> id, targetIndex |-> targetIndex])

\* the page is left
UnmountGrid ==
  /\ "WidgetGrid" \in mounted
  /\ mounted' = mounted \ {"WidgetGrid"}
  /\ activeWidgets' = <<>>
  /\ call' = [op |-> "unmountGrid"]
  /\ UNCHANGED <<layouts, currentLayoutId, localStorage, error, now, syncVars,
                 widgetStorageVars, devToolsVars>>

NextGrid ==
  \/ MountGrid
  \/ \E id \in {activeWidgets[k].id : k \in DOMAIN activeWidgets} : HandleRemoveWidget(id)
  \/ \E id \in {activeWidgets[k].id : k \in DOMAIN activeWidgets} : HandleResizeWidget(id)
  \/ \E id \in {activeWidgets[k].id : k \in DOMAIN activeWidgets}, targetIndex \in 0 .. (Len(defaultWidgets) - 1) :
       HandleDrop(id, targetIndex)
  \/ UnmountGrid

SpecGrid == Init /\ [][NextGrid]_vars

(* ------------------ the panel of widget configs, across page loads ---- *)
\* the render after a handler of the panel, and its persist effect
RenderedDevTools(configs, selected, storage, op) ==
  /\ widgetConfigs' = configs
  /\ selectedWidget' = selected
  /\ localStorage' = persistConfigs(storage, configs)
  /\ call' = op
  /\ mounted' = mounted \cup {"DevTools"}
  /\ UNCHANGED <<layouts, currentLayoutId, error, now, syncVars, widgetStorageVars,
                 activeWidgets>>

\* first render with [], the load effect, the persist effect of [] (writes
\* nothing), then the render of the loaded list and its persist effect
MountDevTools ==
  /\ "DevTools" \notin mounted
  /\ LET loaded == loadConfigs(persistConfigs(localStorage, <<>>))
     IN  RenderedDevTools(loaded.configs, NoSelection, loaded.storage,
                          [op |-> "mountDevTools", logged |-> loaded.logged])

SelectWidget(id) ==
  /\ "DevTools" \in mounted
  /\ RenderedDevTools(widgetConfigs, id, localStorage, [op |-> "select", id |-> id])

\* configJson: what the editor field holds when "save" is clicked, valid
\* JSON with its value or not
HandleSaveConfig(configJson) ==
  /\ "DevTools" \in mounted
  /\ IF selectedWidget = NoSelection \/ ~configJson.valid
     THEN RenderedDevTools(widgetConfigs, selectedWidget, localStorage,
                           [op |-> "saveConfig", jsonError |-> selectedWidget # NoSelection])
     ELSE RenderedDevTools(
            [k \in DOMAIN widgetConfigs |->
              IF widgetConfigs[k].id = selectedWidget
              THEN [widgetConfigs[k] EXCEPT !.config = configJson.value]
              ELSE widgetConfigs[k]],
            selectedWidget, localStorage, [op |-> "saveConfig", jsonError |-> FALSE])

HandleDeleteWidget ==
  /\ "DevTools" \in mounted
  /\ IF selectedWidget = NoSelection
     THEN RenderedDevTools(widgetConfigs, selectedWidget, localStorage,
                           [op |-> "deleteWidget", deleted |-> NoSelection])
     ELSE LET Keep(widget) == widget.id # selectedWidget
          IN  RenderedDevTools(SelectSeq(widgetConfigs, Keep), NoSelection, localStorage,
                               [op |-> "deleteWidget", deleted |-> selectedWidget])

\* handleClearStorage("widget-configs")
HandleClearStorage ==
  /\ "DevTools" \in mounted
  /\ RenderedDevTools(<<>>, NoSelection, [localStorage EXCEPT ![ConfigsKey] = NoItem],
                      [op |-> "clearStorage"])

\* the page is left
UnmountDevTools ==
  /\ "DevTools" \in mounted
  /\ mounted' = mounted \ {"DevTools"}
  /\ widgetConfigs' = <<>>
  /\ selectedWidget' = NoSelection
  /\ call' = [op |-> "unmountDevTools"]
  /\ UNCHANGED <<layouts, currentLayoutId, localStorage, error, now, syncVars,
                 widgetStorageVars, activeWidgets>>

NextDevTools ==
  \/ MountDevTools
  \/ \E id \in {widgetConfigs[k].id : k \in DOMAIN widgetConfigs} : SelectWidget(id)
  \/ \E configJson \in {[valid |-> TRUE, value |-> "edited"], [valid |-> FALSE]} :
       HandleSaveConfig(configJson)
  \/ HandleDeleteWidget
  \/ HandleClearStorage
  \/ UnmountDevTools

SpecDevTools == Init /\ [][NextDevTools]_vars

(* ------------------ the editor of one widget's configuration ---------- *)
\* The storedValue useWidgetConfig renders.  Its options hold a fresh
\* defaultValue object on every render, so, as for the layouts, the key is
\* read again after every render.
configData == getStoredValue(localStorage, ConfigKey, defaultConfigData(now))

\* configData?.settings || initialConfig || defaultConfig
config == configData.settings

EntryConfig ==
  [state |-> (ConfigKey :> configData),
   storage |-> localStorage,
   error |-> error,
   setItemThrows |-> FALSE,
   logged |-> FALSE,
   exception |-> NoError]

RenderedConfig(h, op) ==
  /\ localStorage' = h.storage
  /\ call' = op @@ [logged |-> h.logged, exception |-> h.exception]
  /\ UNCHANGED <<layouts, currentLayoutId, error, now, pageVars>>

ConfigValues == {"a", "b"}
\* what the JSON tab can hold: any object over these keys
JsonKeys == {"items", "title", "description"}
ParsedConfigInputs == UNION {[S -> ConfigValues] : S \in SUBSET JsonKeys}
\* the two fields of the settings form
FormValuesInputs == [{"title", "description"} -> ConfigValues]
PropertyInputs == {"code"}

\* handleJsonSave: updateConfig(JSON.parse(configJson)); a configJson that
\* does not parse leaves everything as it was
HandleJsonSave(parsedConfig) ==
  RenderedConfig(updateConfig(EntryConfig, configData, ConfigObject(parsedConfig), now),
                 [op |-> "updateConfig", newConfig |-> ConfigObject(parsedConfig)])

\* handleSettingsSubmit: updateConfig((currentConfig) => ({...currentConfig, ...formValues}))
HandleSettingsSubmit(formValues) ==
  RenderedConfig(updateConfig(EntryConfig, configData, ConfigFunction(formValues), now),
                 [op |-> "updateConfig", newConfig |-> ConfigFunction(formValues)])

SetConfigProperty(property, value) ==
  RenderedConfig(setConfigProperty(EntryConfig, configData, property, value, now),
                 [op |-> "setConfigProperty", property |-> property, value |-> value])

ResetConfig ==
  RenderedConfig(resetConfig(EntryConfig, now), [op |-> "resetConfig"])

ClearConfig ==
  RenderedConfig(clearConfig(EntryConfig), [op |-> "clearConfig"])

NextConfig ==
  \/ Tick
  \/ \E parsedConfig \in ParsedConfigInputs : HandleJsonSave(parsedConfig)
  \/ \E formValues \in FormValuesInputs : HandleSettingsSubmit(formValues)
  \/ \E property \in PropertyInputs, value \in ConfigValues :
       SetConfigProperty(property, value)
  \/ ResetConfig
  \/ ClearConfig

SpecConfig == Init /\ [][NextConfig]_vars

(* ------------------------- geometry of the claims ---------------------- *)
Rect(x, y, w, h) == [x |-> x, y |-> y, w |-> w, h |-> h]

Intersects(p, q) ==
  /\ p.x < q.x + q.w
  /\ q.x < p.x + p.w
  /\ p.y < q.y + q.h
  /\ q.y < p.y + p.h

NoOverlapIn(widgets) ==
  \A k, m \in DOMAIN widgets :
    k < m => ~Intersects(widgets[k].position, widgets[m].position)

\* no instance of widgets covers a cell of p
FreeOf(widgets, p) ==
  \A k \in DOMAIN widgets : ~Intersects(p, widgets[k].position)

Max(S) == CHOOSE n \in S : \A m \in S : m <= n

\* the first row below every instance
BottomOf(widgets) ==
  Max({0} \cup {widgets[k].position.y + widgets[k].position.h : k \in DOMAIN widgets})

Before(p, q) == p.y < q.y \/ (p.y = q.y /\ p.x <= q.x)

\* the first free w x h rectangle, rows scanned from 0 upward, columns from
\* 0 to gridWidth - w
FirstFree(widgets, w, h) ==
  LET candidates == {Rect(x, y, w, h) : x \in 0 .. (gridWidth - w),
                                           y \in 0 .. BottomOf(widgets)}
      free == {p \in candidates : FreeOf(widgets, p)}
  IN  CHOOSE p \in free : \A q \in free : Before(p, q)

\* a free w x h rectangle exists within rows 0 .. gridHeight - 1
FitsInGrid(widgets, w, h) ==
  \E x \in 0 .. (gridWidth - w), y \in 0 .. (gridHeight - h) :
    FreeOf(widgets, Rect(x, y, w, h))

Last(seq) == seq[Len(seq)]

\* the footprint addWidget gives an instance of a registered definition
FootprintOf(widgetId) ==
  DEFAULT_WIDGET_DIMENSIONS[widgetRegistry[widgetId].defaultSize]

\* this step is addWidget with a registered definition and an active layout
AddsToActive ==
  /\ call'.op = "addWidget"
  /\ call'.widgetId \in DOMAIN widgetRegistry
  /\ currentLayout # Null

(* -------------------------------- claims ------------------------------- *)
\* C1: after every addWidget call into an initially empty layout no two
\* instances of a layout have intersecting rectangles.
C1_NoOverlap ==
  \A i \in DOMAIN layouts : NoOverlapIn(layouts[i].widgets)

\* C4: the position addWidget computes is the first position, rows from 0
\* upward and columns from 0 to 4 - w, at which the w x h rectangle is
\* unoccupied.
C4_FirstFit ==
  [][AddsToActive =>
       Last(currentLayout'.widgets).position =
         FirstFree(currentLayout.widgets,
                   FootprintOf(call'.widgetId).w, FootprintOf(call'.widgetId).h)]_vars

LayoutIds(ls) == {ls[i].id : i \in DOMAIN ls}

persistedLayouts == getStoredValue(localStorage, LayoutsKey, <<>>)
persistedCurrentLayoutId == getStoredValue(localStorage, CurrentKey, "")

\* C2: the persisted active-layout identifier is empty or the id of a layout
\* in the layout list.
C2_ActiveLayoutExists ==
  \/ persistedCurrentLayoutId = ""
  \/ persistedCurrentLayoutId \in LayoutIds(persistedLayouts)

\* C3: addWidget with a registered definition and no active layout leaves a
\* layout named "Default Layout" that is active and holds the new instance.
C3_DefaultLayout ==
  [][(/\ call'.op = "addWidget"
      /\ call'.widgetId \in DOMAIN widgetRegistry
      /\ currentLayout = Null)
     => \E i \in DOMAIN layouts' :
          /\ layouts'[i].name = "Default Layout"
          /\ layouts'[i].id = currentLayoutId'
          /\ \E k \in DOMAIN layouts'[i].widgets :
               layouts'[i].widgets[k].widgetId = call'.widgetId]_vars

\* C6: addWidget with an unregistered definition reports NotFound to its
\* caller and leaves the layout list and the active pointer as they were.
C6_UnknownDefinition ==
  [][(/\ call'.op = "addWidget"
      /\ call'.widgetId \notin DOMAIN widgetRegistry)
     => /\ call'.exception = NotFound \/ error' = NotFound
        /\ layouts' = layouts
        /\ currentLayoutId' = currentLayoutId
        /\ localStorage'[LayoutsKey] = localStorage[LayoutsKey]
        /\ localStorage'[CurrentKey] = localStorage[CurrentKey]]_vars

\* the first layout in list order whose id is not id
FirstOther(ls, id) ==
  ls[CHOOSE i \in DOMAIN ls :
       ls[i].id # id /\ \A j \in DOMAIN ls : ls[j].id # id => i <= j]

C10_UniqueIds ==
  /\ \A i, j \in DOMAIN layouts : i # j => layouts[i].id # layouts[j].id
  /\ \A i \in DOMAIN layouts :
       \A k, m \in DOMAIN layouts[i].widgets :
         k # m => layouts[i].widgets[k].id # layouts[i].widgets[m].id

(* ----------------------- claims on widget instances ------------------- *)
InstanceIds(widgets) == {widgets[k].id : k \in DOMAIN widgets}

\* C12: an instance created by addWidget without a config argument has the
\* default configuration of its definition as its config.
C12_ConfigFromDefinition ==
  [][(AddsToActive /\ call'.config = Undefined)
     => \A k \in DOMAIN currentLayout'.widgets :
          k > Len(currentLayout.widgets)
            => currentLayout'.widgets[k].config =
                 widgetRegistry[call'.widgetId].defaultConfig]_vars

\* the active layout's instances after one more removeWidget(instanceId)
WidgetsAfterRemove(instanceId) ==
  currentLayoutOf(
    getStoredValue(removeWidget(Entry, layouts, currentLayoutId, instanceId, now).storage,
                   LayoutsKey, <<>>),
    currentLayoutId).widgets

\* C13: after removeWidget(id) no instance of the active layout has that id
\* and every other instance is there as before, in the same order; calling
\* removeWidget(id) once more leaves that list as it is.
C13_RemoveIdempotent ==
  [][(call'.op = "removeWidget" /\ currentLayout # Null)
     => LET before == currentLayout.widgets
            after == currentLayout'.widgets
        IN  /\ call'.instanceId \notin InstanceIds(after)
            /\ after = SelectSeq(before, LAMBDA w : w.id # call'.instanceId)
            /\ WidgetsAfterRemove(call.instanceId)' = after]_vars

\* an instance was removed from a layout that still holds another one
C13_Witness ==
  /\ call.op = "removeWidget"
  /\ call.hadLayout
  /\ call.instanceId # "widget-missing"
  /\ currentLayout # Null
  /\ Len(currentLayout.widgets) >= 1
  /\ call.instanceId \notin InstanceIds(currentLayout.widgets)

\* C16: after removeWidget(id) every instance of the active layout that is
\* left has the position it had before the call.
C16_NoRepack ==
  [][(call'.op = "removeWidget" /\ currentLayout # Null)
     => \A j \in DOMAIN currentLayout.widgets :
          currentLayout.widgets[j].id # call'.instanceId
            => \E k \in DOMAIN currentLayout'.widgets :
                 /\ currentLayout'.widgets[k].id = currentLayout.widgets[j].id
                 /\ currentLayout'.widgets[k].position =
                      currentLayout.widgets[j].position]_vars

\* a 1x1 was added at (0,0), a 2x1 at (1,0), the first was removed and the
\* second is still at (1,0)
C16_Witness ==
  /\ call.op = "removeWidget"
  /\ call.instanceId = InstanceId("status-widget", 0)
  /\ currentLayout # Null
  /\ Len(currentLayout.widgets) = 1
  /\ currentLayout.widgets[1].id = InstanceId("analytics-chart", 1)
  /\ currentLayout.widgets[1].position = Rect(1, 0, 2, 1)

\* C17: updateWidget(id, partial) on an instance of the active layout gives
\* that instance the fields of partial and leaves its other fields, the other
\* instances and the number of instances as they were.
C17_UpdateMerges ==
  [][(/\ call'.op = "updateWidget"
      /\ currentLayout # Null
      /\ call'.instanceId \in InstanceIds(currentLayout.widgets))
     => LET before == currentLayout.widgets
            after == currentLayout'.widgets
            partial == call'.updates
        IN  /\ Len(after) = Len(before)
            /\ \A k \in DOMAIN before :
                 IF before[k].id = call'.instanceId
                 THEN /\ DOMAIN after[k] = DOMAIN before[k] \cup DOMAIN partial
                      /\ \A f \in DOMAIN partial : after[k][f] = partial[f]
                      /\ \A f \in (DOMAIN before[k]) \ (DOMAIN partial) :
                           after[k][f] = before[k][f]
                 ELSE after[k] = before[k]]_vars

\* one of two instances was resized and given a config; it kept its title,
\* and the other instance is as addWidget made it
C17_Witness ==
  /\ call.op = "updateWidget"
  /\ currentLayout # Null
  /\ Len(currentLayout.widgets) = 2
  /\ \E k, m \in DOMAIN currentLayout.widgets :
       /\ k # m
       /\ currentLayout.widgets[k].id = call.instanceId
       /\ currentLayout.widgets[k].size = "large"
       /\ currentLayout.widgets[k].config = "custom"
       /\ currentLayout.widgets[k].position = Rect(0, 0, 2, 2)
       /\ currentLayout.widgets[k].title =
            widgetRegistry[currentLayout.widgets[k].widgetId].name
       /\ currentLayout.widgets[m].size # "large"
       /\ currentLayout.widgets[m].config = Undefined

\* C18: updateWidgetPositions(list) gives every instance of the active layout
\* whose id is in the list the position supplied for it, whether or not it
\* then intersects another instance, and leaves everything else of the
\* instances, and the instances the list does not name, as they were.
C18_BatchPositions ==
  [][(call'.op = "updateWidgetPositions" /\ currentLayout # Null)
     => LET before == currentLayout.widgets
            after == currentLayout'.widgets
            list == call'.updates
        IN  /\ Len(after) = Len(before)
            /\ \A k \in DOMAIN before :
                 IF \E n \in DOMAIN list : list[n].id = before[k].id
                 THEN \E n \in DOMAIN list :
                        /\ list[n].id = before[k].id
                        /\ after[k] = [before[k] EXCEPT !.position = list[n].position]
                 ELSE after[k] = before[k]]_vars

\* a batch with an entry for no instance moved one instance onto another
C18_Witness ==
  /\ call.op = "updateWidgetPositions"
  /\ currentLayout # Null
  /\ Len(currentLayout.widgets) = 2
  /\ \E n \in DOMAIN call.updates : call.updates[n].id = "widget-missing"
  /\ \E n \in DOMAIN call.updates :
       call.updates[n].id \in InstanceIds(currentLayout.widgets)
  /\ ~NoOverlapIn(currentLayout.widgets)

\* C14: removeWidget and updateWidget with an id that no instance of the
\* active layout has leave the layout list as it was, timestamps included.
C14_AbsentIdNoOp ==
  [][(/\ call'.op \in {"removeWidget", "updateWidget"}
      /\ currentLayout # Null
      /\ call'.instanceId \notin InstanceIds(currentLayout.widgets))
     => /\ layouts' = layouts
        /\ persistedLayouts' = persistedLayouts]_vars

\* C15: deleteLayout with an id that no layout has leaves the list and the
\* active pointer as they were; with the id of a layout that is not the
\* active one it removes that layout only and leaves the pointer.
C15_DeleteFrame ==
  [][call'.op = "deleteLayout"
     => LET id == call'.layoutId
        IN  /\ id \notin LayoutIds(layouts)
                 => /\ layouts' = layouts
                    /\ currentLayoutId' = currentLayoutId
            /\ (id \in LayoutIds(layouts) /\ id # currentLayoutId)
                 => /\ layouts' = SelectSeq(layouts, LAMBDA l : l.id # id)
                    /\ Len(layouts') = Len(layouts) - 1
                    /\ currentLayoutId' = currentLayoutId]_vars

(* ----------------------- claims on the stored config ------------------- *)
\* C11: after updateConfig(m) with an update object m, config has every key
\* of m at m's value and every key of the previous config that is not in m
\* at its previous value.
C11_ConfigMerge ==
  [][(call'.op = "updateConfig" /\ ~call'.newConfig.fn)
     => LET m == call'.newConfig.object
        IN  /\ \A k \in DOMAIN m : k \in DOMAIN config' /\ config'[k] = m[k]
            /\ \A k \in (DOMAIN config) \ (DOMAIN m) :
                 k \in DOMAIN config' /\ config'[k] = config[k]]_vars

(* ------------------------ claims on the key-value store ---------------- *)
absentOrCorrupt(key) == localStorage[key] = NoItem \/ parseThrows(localStorage[key])

\* C19: reading a key that was never written, or whose text is not JSON,
\* gives the default value of the caller ([] for the layouts, "" for the
\* pointer) and leaves the text of the key as it is.
C19_ReadFallback ==
  [][call'.op = "mount"
     => /\ localStorage' = localStorage
        /\ absentOrCorrupt(LayoutsKey) => layouts' = <<>>
        /\ absentOrCorrupt(CurrentKey) => currentLayoutId' = ""
        /\ ~absentOrCorrupt(CurrentKey)
             => currentLayoutId' = JSONparse(localStorage[CurrentKey])]_vars

\* the page was loaded with a damaged layout list and an intact pointer
C19_Witness ==
  /\ call.op = "mount"
  /\ localStorage[LayoutsKey] = CorruptText
  /\ layouts = <<>>
  /\ localStorage[CurrentKey] # NoItem
  /\ localStorage[CurrentKey] # CorruptText
  /\ currentLayoutId # ""

\* C20: when localStorage.setItem fails during a write, no exception reaches
\* the caller, the texts of the keys are as before, and the in-memory value
\* of each store is the value it was set to.
C20_WriteFailsSoft ==
  [][("full" \in DOMAIN call' /\ call'.full)
     => /\ call'.exception = NoError
        /\ localStorage' = localStorage
        /\ currentLayoutId' = call'.stored[CurrentKey]
        /\ layouts' = call'.stored[LayoutsKey]]_vars

(* ------------------- claims on placement and the frame ----------------- *)
\* small 1x1, medium 2x1, large 2x2
SizeFootprint(size) ==
  CASE size = "small" -> [w |-> 1, h |-> 1]
    [] size = "medium" -> [w |-> 2, h |-> 1]
    [] size = "large" -> [w |-> 2, h |-> 2]

\* C23: every instance created by addWidget has the default size of its
\* definition as its size category and the footprint of that category as
\* position.w and position.h.
C23_FootprintFromSize ==
  \A i \in DOMAIN layouts :
    \A k \in DOMAIN layouts[i].widgets :
      LET widget == layouts[i].widgets[k]
      IN  /\ widget.size = widgetRegistry[widget.widgetId].defaultSize
          /\ widget.position.w = SizeFootprint(widget.size).w
          /\ widget.position.h = SizeFootprint(widget.size).h

\* a layout holds a small, a medium and a large instance
C23_Witness ==
  /\ call.op = "addWidget"
  /\ currentLayout # Null
  /\ \A size \in {"small", "medium", "large"} :
       \E k \in DOMAIN currentLayout.widgets : currentLayout.widgets[k].size = size

\* C24: with existing instances whose rectangles lie partly or wholly outside
\* the grid, addWidget with a registered definition still appends the new
\* instance, and nothing is thrown on the way.
C24_ClipsOutside ==
  [][AddsToActive
     => /\ Len(currentLayout'.widgets) = Len(currentLayout.widgets) + 1
        /\ ~call'.logged
        /\ call'.exception = NoError]_vars

\* C25: a position addWidget places an instance at has 0 <= x and x + w <= 4
\* and, unless it is the fallback (0, 10), 0 <= y and y + h <= 10.
C25_WithinColumns ==
  [][(AddsToActive /\ Len(currentLayout'.widgets) > Len(currentLayout.widgets))
     => LET p == Last(currentLayout'.widgets).position
        IN  /\ 0 <= p.x
            /\ p.x + p.w <= 4
            /\ \/ (p.x = 0 /\ p.y = 10)
               \/ (0 <= p.y /\ p.y + p.h <= 10)]_vars

\* a 2x2 was added next to an instance that covers rows 0..8: only row 9 is
\* free, and the new instance went to the fallback
C25_Witness ==
  /\ call.op = "addWidget"
  /\ currentLayout # Null
  /\ Len(currentLayout.widgets) >= 2
  /\ \E k \in DOMAIN currentLayout.widgets :
       currentLayout.widgets[k].position = Rect(0, 0, 4, 9)
  /\ Last(currentLayout.widgets).position = Rect(0, 10, 2, 2)

\* C26: createLayout followed by the setLayouts of addWidget, with no render
\* in between: the list stored in the end holds the layout the first updater
\* appended.
C26_UpdatesCompose ==
  [][(call'.op = "addWidget" /\ currentLayout = Null)
     => /\ Len(layouts') = Len(layouts) + 1
        /\ Last(layouts').id = LayoutId(now)
        /\ persistedLayouts' = layouts']_vars

\* C28: addWidget, removeWidget, updateWidget and updateWidgetPositions,
\* called with an active layout, leave every other layout of the list, the
\* number of layouts and the active pointer as they were.
C28_OnlyActiveLayout ==
  [][(/\ call'.op \in {"addWidget", "removeWidget", "updateWidget",
                       "updateWidgetPositions"}
      /\ currentLayout # Null)
     => /\ Len(layouts') = Len(layouts)
        /\ currentLayoutId' = currentLayoutId
        /\ \E a \in DOMAIN layouts :
             /\ layouts[a] = currentLayout
             /\ \A i \in DOMAIN layouts : i # a => layouts'[i] = layouts[i]]_vars

(* --------------------- claims on the per-instance keys ----------------- *)
StorageNames == {"data", "cache"}

\* the keys the three hooks bind an instance to
KeysOf(widget) ==
  {ConfigKeyOf(widget.widgetId, widget.id), StateKeyOf(widget.widgetId, widget.id)}
    \cup {StorageKeyOf(widget.widgetId, widget.id, name) : name \in StorageNames}

\* the instances of all layouts, by place
Places == {<<i, k>> \in (DOMAIN layouts) \X (1 .. MaxKeyed) : k \in DOMAIN layouts[i].widgets}

InstanceAt(place) == layouts[place[1]].widgets[place[2]]

\* instances with different (widgetId, instanceId) pairs have no key in common
KeysInjective ==
  \A a, b \in Places :
    (<<InstanceAt(a).widgetId, InstanceAt(a).id>> # <<InstanceAt(b).widgetId, InstanceAt(b).id>>)
      => KeysOf(InstanceAt(a)) \cap KeysOf(InstanceAt(b)) = {}

\* C30: different (widgetId, instanceId) pairs map to different keys under
\* the three schemes, and no two instances share a key.
C30_KeysIsolate ==
  /\ KeysInjective
  /\ \A a, b \in Places :
       a # b => KeysOf(InstanceAt(a)) \cap KeysOf(InstanceAt(b)) = {}

(* ------------------ claims on the stores that synchronise -------------- *)
\* C21: after set(key, v) or remove(key) through one store of the window,
\* every other store of the window on that key holds v (undefined after a
\* remove) and the stores on other keys hold what they held; the other tab
\* holds the announced value once it has handled the storage event.
C21_SyncDelivers ==
  [][/\ call'.op \in {"set", "remove"}
        => \A name \in ThisWindow \ {call'.store} :
             IF KeyOfStore[name] = KeyOfStore[call'.store]
             THEN syncStores'[name] = call'.value
             ELSE syncStores'[name] = syncStores[name]
     /\ (call'.op = "storage" /\ call'.key = KeyOfStore["otherTab"])
        => syncStores'["otherTab"] =
             (IF call'.newValue = NoItem THEN UndefinedValue ELSE JSONparse(call'.newValue))]_vars

(* --------------------- claims on a widget's stored data ---------------- *)
\* the record under the key of the widget's data, before a step
storedRecord == JSONparse(localStorage[WidgetStorageKey])

\* this step mounts or renders the hook over a stored record
ReadsRecord ==
  /\ call'.op \in {"mountStorage", "renderStorage"}
  /\ localStorage[WidgetStorageKey] # NoItem

\* C22: a read of a record whose schema differs from the current version,
\* with a migrate function, returns migrate(stored data, stored schema,
\* current version) and stores the current version as the record's schema;
\* a read of a record of the current version calls no migrate and returns the
\* stored data; when migrate throws, the record stays and its data are
\* returned.
C22_Migration ==
  [][ReadsRecord =>
      LET version == storageOptions'.schemaVersion
          schema == storedRecord.metadata.schema
          counted == IF call'.op = "mountStorage" THEN 0 ELSE migrateCalls
      IN  /\ (schema # version /\ storageOptions'.migrate = "upgrade")
               => /\ widgetData' = storedRecord.data \o <<schema, version>>
                  /\ storedRecord'.metadata.schema = version
                  /\ storedRecord'.data = widgetData'
                  /\ migrateCalls' = counted + 1
          /\ schema = version
               => /\ migrateCalls' = counted
                  /\ widgetData' = storedRecord.data
                  /\ localStorage' = localStorage
          /\ (schema # version /\ storageOptions'.migrate = "throws")
               => /\ localStorage' = localStorage
                  /\ widgetData' = storedRecord.data]_vars

\* a record of version 1.0.0 was migrated at the mount and a later render
\* called migrate no second time
C22_Witness ==
  /\ call.op = "renderStorage"
  /\ storageOptions = StorageOptions("2.0.0", "upgrade")
  /\ migrateCalls = 1
  /\ widgetData = <<"a", "1.0.0", "2.0.0">>
  /\ localStorage[WidgetStorageKey] # NoItem
  /\ storedRecord.metadata.schema = "2.0.0"

(* ------------------- claims on the grid and on the panel --------------- *)
\* C27: when WidgetGrid mounts over a parseable list stored under
\* dashboardWidgets, activeWidgets is that list once the mount effects have
\* run, and the text under the key is the one that was there.
C27_GridRestores ==
  [][(/\ call'.op = "mountGrid"
      /\ localStorage[GridKey] # NoItem
      /\ ~parseThrows(localStorage[GridKey]))
     => /\ activeWidgets' = JSONparse(localStorage[GridKey])
        /\ localStorage'[GridKey] = localStorage[GridKey]]_vars

\* the list under widget-configs, empty when the key is absent
persistedConfigs ==
  IF localStorage[ConfigsKey] = NoItem THEN <<>> ELSE JSONparse(localStorage[ConfigsKey])

\* C29: after a save-config or a delete-widget action the list under
\* widget-configs is the widgetConfigs list of the panel.
C29_ConfigsInSync ==
  [][call'.op \in {"saveConfig", "deleteWidget"}
     => persistedConfigs' = widgetConfigs']_vars

====
